---- MODULE Spec2Model ----
(***************************************************************************)
(* A model of the relay interop layer:                                     *)
(*   - HeadersBuilder (src/src/header.rs): add_headers, add_content_type   *)
(*     acting on one curl Easy handle;                                     *)
(*   - ResponseHandler (src/src/response.rs): new, build,                  *)
(*     determine_media_type, calculate_timing;                             *)
(*   - the unit enums of src/src/interop.rs and their serde spellings.     *)
(*                                                                         *)
(* Text the code inspects character by character (header lines, content    *)
(* type values, error messages) is a sequence of one-character strings;    *)
(* the character NUL stands for the byte 0.  Text the code only compares   *)
(* for equality (serde's variant names) is a TLA+ string.                  *)
(***************************************************************************)
EXTENDS Integers, Sequences, FiniteSets, TLC

VARIABLES
    handle,     \* the curl Easy handle a HeadersBuilder borrows
    call,       \* the last HeadersBuilder call: its arguments and its outcome
    profile,    \* how the crate was built and is run (overflow checks, TRACE level)
    handler,    \* the fields of one ResponseHandler instance
    consumed,   \* whether that instance has been moved into build()
    outcome,    \* what build() returned, if it was called
    built,      \* how many times build() ran on the instance
    origin,     \* serde: the value or the text a round trip started from
    wire,       \* serde: the text last produced or received
    decoded,    \* serde: the result of the last deserialization
    phase       \* serde: how far the round trip has come

vars == <<handle, call, profile, handler, consumed, outcome, built,
          origin, wire, decoded, phase>>

headerVars == <<handle, call>>
responseVars == <<profile, handler, consumed, outcome, built>>
serdeVars == <<origin, wire, decoded, phase>>

(***************************************************************************)
(* Text                                                                    *)
(***************************************************************************)
NUL == "NUL"

HasNul(s) == \E i \in 1..Len(s) : s[i] = NUL

\* str::starts_with
starts_with(s, p) ==
    /\ Len(p) <= Len(s)
    /\ \A i \in 1..Len(p) : s[i] = p[i]

\* p occurs in s as a contiguous run of characters
Contains(s, p) ==
    \E k \in 0..(Len(s) - Len(p)) : \A i \in 1..Len(p) : s[k + i] = p[i]

RECURSIVE SeqSum(_)
SeqSum(s) == IF s = <<>> THEN 0 ELSE Head(s) + SeqSum(Tail(s))

\* the sequences over S without repetition that hold all of S
Orders(S) ==
    {o \in [1..Cardinality(S) -> S] : \A i, j \in 1..Cardinality(S) : o[i] = o[j] => i = j}

(***************************************************************************)
(* HeadersBuilder                                                          *)
(***************************************************************************)
MaxVals == 2    \* values per header key in the mappings tried

KeyContentType == <<"C","o","n","t","e","n","t","-","T","y","p","e">>
KeyXA == <<"X","-","A">>
HeaderKeys == {KeyContentType, KeyXA}

ValJson == <<"a","/","j">>
ValBad == <<"b",NUL,"c">>
HeaderValues == {ValJson, ValBad}
ContentTypes == {ValJson, ValBad, <<>>}

\* the values tried under each key: X-A may carry the value the engine rejects
ValuesOf(key) == IF key = KeyXA THEN HeaderValues ELSE {ValJson}

\* Vec<String>: up to MaxVals values
ValueSeqs(key) == UNION {[1..n -> ValuesOf(key)] : n \in 0..MaxVals}

\* HashMap<String, Vec<String>>: a function from the keys present to their values
HeaderMaps ==
    UNION {{m \in [D -> UNION {ValueSeqs(k) : k \in D}] : \A k \in D : m[k] \in ValueSeqs(k)} :
              D \in SUBSET HeaderKeys}

None == [some |-> FALSE]
Some(v) == [some |-> TRUE, v |-> v]

\* RelayError::Network { message, cause }
Network(message, cause) == [kind |-> "Network", message |-> message, cause |-> cause]
Ok == [ok |-> TRUE]
Err(e) == [ok |-> FALSE, error |-> e]

MsgAppendHeader == <<"F","a","i","l","e","d"," ","t","o"," ","a","p","p","e","n","d"," ","h","e","a","d","e","r">>
MsgSetHeaders == <<"F","a","i","l","e","d"," ","t","o"," ","s","e","t"," ","h","e","a","d","e","r","s">>
MsgSetContentType == <<"F","a","i","l","e","d"," ","t","o"," ","s","e","t"," ","c","o","n","t","e","n","t"," ","t","y","p","e">>
MsgSetContentTypeHeader == <<"F","a","i","l","e","d"," ","t","o"," ","s","e","t"," ","c","o","n","t","e","n","t"," ","t","y","p","e"," ","h","e","a","d","e","r">>

\* e.to_string() of the engine's errors: the engine describes its error code,
\* it is never handed the key or the value the caller formatted.
CauseAppend == <<"[","7","5","]"," ","C","o","n","v","e","r","s","i","o","n"," ","f","a","i","l","e","d">>
CauseSetopt == <<"[","2","7","]"," ","O","u","t"," ","o","f"," ","m","e","m","o","r","y">>

\* format!("{}: {}", key, value)
FormatHeader_nospace(key, value) == key \o <<":">> \o value

FormatHeader(key, value) == key \o <<":", " ">> \o value

\* format!("Content-Type: {}", content_type)
FormatContentType_lower(content_type) ==
    <<"c","o","n","t","e","n","t","-","t","y","p","e",":"," ">> \o content_type

FormatContentType(content_type) ==
    <<"C","o","n","t","e","n","t","-","T","y","p","e",":"," ">> \o content_type

\* List::append: the engine takes the line as a C string, so a line holding
\* the byte 0 is rejected; an accepted line goes to the end of the list.
ListAppend_lenient(list, line) == [ok |-> TRUE, list |-> Append(list, line)]

ListAppend(list, line) ==
    IF HasNul(line) THEN [ok |-> FALSE, list |-> list]
    ELSE [ok |-> TRUE, list |-> Append(list, line)]

\* Easy::http_headers: the list handed over becomes the handle's header list,
\* in place of the one it had; a handle whose option call fails keeps its list.
http_headers_merge(h, list) ==
    IF h.setopt_fails THEN [ok |-> FALSE, handle |-> h]
    ELSE [ok |-> TRUE, handle |-> [h EXCEPT !.header_list = h.header_list \o list]]

http_headers(h, list) ==
    IF h.setopt_fails THEN [ok |-> FALSE, handle |-> h]
    ELSE [ok |-> TRUE, handle |-> [h EXCEPT !.header_list = list]]

\* the (key, value) pairs in the order the two nested loops visit them, the
\* keys in the map's iteration order
RECURSIVE Pairs(_, _)
Pairs(headers, order) ==
    IF order = <<>> THEN <<>>
    ELSE [i \in 1..Len(headers[Head(order)]) |->
             [key |-> Head(order), value |-> headers[Head(order)][i]]]
         \o Pairs(headers, Tail(order))

\* the loops of add_headers from the n-th pair on: format, append, and leave
\* at the first line the engine rejects (the ? operator)
RECURSIVE AppendLoop(_, _, _)
AppendLoop(list, pairs, n) ==
    IF n > Len(pairs) THEN [ok |-> TRUE, list |-> list, appends |-> n - 1, logged |-> None]
    ELSE LET r == ListAppend(list, FormatHeader(pairs[n].key, pairs[n].value))
         IN  IF r.ok THEN AppendLoop(r.list, pairs, n + 1)
             ELSE [ok |-> FALSE, list |-> list, appends |-> n,
                   logged |-> Some([key |-> pairs[n].key, value |-> pairs[n].value])]

NoCall ==
    [op |-> "none", headers |-> None, order |-> <<>>, content_type |-> <<>>,
     result |-> Ok, list |-> <<>>, appends |-> 0, installs |-> 0, logged |-> None]

\* HeadersBuilder::add_headers; order is the iteration order of the HashMap
add_headers(h, headers, order) ==
    LET base == [NoCall EXCEPT !.op = "add_headers", !.headers = headers, !.order = order]
    IN  IF ~headers.some THEN [handle |-> h, call |-> base]
        ELSE LET loop == AppendLoop(<<>>, Pairs(headers.v, order), 1)
             IN  IF ~loop.ok
                 THEN [handle |-> h,
                       call |-> [base EXCEPT !.result = Err(Network(MsgAppendHeader, CauseAppend)),
                                             !.list = loop.list,
                                             !.appends = loop.appends,
                                             !.logged = loop.logged]]
                 ELSE LET set == http_headers(h, loop.list)
                      IN  [handle |-> set.handle,
                           call |-> [base EXCEPT
                               !.result = IF set.ok THEN Ok
                                          ELSE Err(Network(MsgSetHeaders, CauseSetopt)),
                               !.list = loop.list,
                               !.appends = loop.appends,
                               !.installs = 1]]

\* HeadersBuilder::add_content_type
add_content_type(h, content_type) ==
    LET base == [NoCall EXCEPT !.op = "add_content_type", !.content_type = content_type]
        r == ListAppend(<<>>, FormatContentType(content_type))
    IN  IF ~r.ok
        THEN [handle |-> h,
              call |-> [base EXCEPT !.result = Err(Network(MsgSetContentType, CauseAppend)),
                                    !.appends = 1,
                                    !.logged = Some([content_type |-> content_type])]]
        ELSE LET set == http_headers(h, r.list)
             IN  [handle |-> set.handle,
                  call |-> [base EXCEPT
                      !.result = IF set.ok THEN Ok
                                 ELSE Err(Network(MsgSetContentTypeHeader, CauseSetopt)),
                      !.list = r.list,
                      !.appends = 1,
                      !.installs = 1]]

\* a fresh Easy handle has no header list; whether its option calls fail is
\* the engine's affair
InitHeaders ==
    /\ handle \in [header_list : {<<>>}, setopt_fails : BOOLEAN]
    /\ call = NoCall

\* what add_headers may be handed: no mapping, or a mapping, which its loop
\* then visits in one of the orders of its keys
HeaderArgs ==
    {[headers |-> None, order |-> <<>>]}
        \cup UNION {{[headers |-> Some(m), order |-> o] : o \in Orders(DOMAIN m)} :
                        m \in HeaderMaps}

AddHeaders ==
    \E a \in HeaderArgs :
        LET r == add_headers(handle, a.headers, a.order)
        IN  /\ handle' = r.handle
            /\ call' = r.call
            /\ UNCHANGED <<responseVars, serdeVars>>

AddContentType ==
    \E content_type \in ContentTypes :
        LET r == add_content_type(handle, content_type)
        IN  /\ handle' = r.handle
            /\ call' = r.call
            /\ UNCHANGED <<responseVars, serdeVars>>

Next_Headers == AddHeaders \/ AddContentType

(***************************************************************************)
(* MediaType and the other unit enums of interop.rs                        *)
(***************************************************************************)
MediaTypes ==
    {"TextPlain", "TextHtml", "TextCss", "TextCsv", "Json", "JsonLd", "Xml",
     "TextXml", "FormUrlEncoded", "MultipartFormData", "OctetStream", "Other"}

\* MediaType as text, from its strum to_string attributes; Other has none and
\* shows as its own name
as_ref(m) ==
    CASE m = "TextPlain" -> <<"t","e","x","t","/","p","l","a","i","n">>
      [] m = "TextHtml" -> <<"t","e","x","t","/","h","t","m","l">>
      [] m = "TextCss" -> <<"t","e","x","t","/","c","s","s">>
      [] m = "TextCsv" -> <<"t","e","x","t","/","c","s","v">>
      [] m = "Json" -> <<"a","p","p","l","i","c","a","t","i","o","n","/","j","s","o","n">>
      [] m = "JsonLd" -> <<"a","p","p","l","i","c","a","t","i","o","n","/","l","d","+","j","s","o","n">>
      [] m = "Xml" -> <<"a","p","p","l","i","c","a","t","i","o","n","/","x","m","l">>
      [] m = "TextXml" -> <<"t","e","x","t","/","x","m","l">>
      [] m = "FormUrlEncoded" -> <<"a","p","p","l","i","c","a","t","i","o","n","/","x","-","w","w","w","-","f","o","r","m","-","u","r","l","e","n","c","o","d","e","d">>
      [] m = "MultipartFormData" -> <<"m","u","l","t","i","p","a","r","t","/","f","o","r","m","-","d","a","t","a">>
      [] m = "OctetStream" -> <<"a","p","p","l","i","c","a","t","i","o","n","/","o","c","t","e","t","-","s","t","r","e","a","m">>
      [] m = "Other" -> <<"O","t","h","e","r">>

\* <<enum, variant, serde name>>: the serde(rename), serde(rename_all) or plain
\* variant name each unit variant is written and read as
SerdeNames ==
    { <<"Protocol", "Http10", "http/1.0">>, <<"Protocol", "Http11", "http/1.1">>,
      <<"Protocol", "Http2", "http/2">>, <<"Protocol", "Http3", "http/3">>,
      <<"MediaType", "TextPlain", "text/plain">>, <<"MediaType", "TextHtml", "text/html">>,
      <<"MediaType", "TextCss", "text/css">>, <<"MediaType", "TextCsv", "text/csv">>,
      <<"MediaType", "Json", "application/json">>,
      <<"MediaType", "JsonLd", "application/ld+json">>,
      <<"MediaType", "Xml", "application/xml">>, <<"MediaType", "TextXml", "text/xml">>,
      <<"MediaType", "FormUrlEncoded", "application/x-www-form-urlencoded">>,
      <<"MediaType", "MultipartFormData", "multipart/form-data">>,
      <<"MediaType", "OctetStream", "application/octet-stream">>,
      <<"MediaType", "Other", "Other">>,
      <<"DigestAlgorithm", "Md5", "MD5">>, <<"DigestAlgorithm", "Sha256", "SHA-256">>,
      <<"DigestAlgorithm", "Sha512", "SHA-512">>,
      <<"DigestQop", "Auth", "auth">>, <<"DigestQop", "AuthInt", "auth-int">>,
      <<"SameSite", "Strict", "Strict">>, <<"SameSite", "Lax", "Lax">>,
      <<"SameSite", "None", "None">> }

EnumTypes == {t[1] : t \in SerdeNames}
EnumValues == {[type |-> t[1], variant |-> t[2]] : t \in SerdeNames}

\* the variant marked serde(other), for the enums that have one
OtherVariant == [MediaType |-> "Other"]

\* Serialize: a unit variant is written as its serde name
serialize(v) ==
    (CHOOSE t \in SerdeNames : t[1] = v.type /\ t[2] = v.variant)[3]

\* Deserialize: the variant of that name; any other text is the serde(other)
\* variant where the enum has one and an unknown-variant error where not
deserialize_strict(type, text) ==
    IF \E t \in SerdeNames : t[1] = type /\ t[3] = text
    THEN [ok |-> TRUE,
          v |-> [type |-> type,
                 variant |-> (CHOOSE t \in SerdeNames : t[1] = type /\ t[3] = text)[2]]]
    ELSE [ok |-> FALSE, v |-> [type |-> type, variant |-> "unknown variant"]]

deserialize(type, text) ==
    IF \E t \in SerdeNames : t[1] = type /\ t[3] = text
    THEN [ok |-> TRUE,
          v |-> [type |-> type,
                 variant |-> (CHOOSE t \in SerdeNames : t[1] = type /\ t[3] = text)[2]]]
    ELSE IF type \in DOMAIN OtherVariant
         THEN [ok |-> TRUE, v |-> [type |-> type, variant |-> OtherVariant[type]]]
         ELSE [ok |-> FALSE, v |-> [type |-> type, variant |-> "unknown variant"]]

\* texts a peer may send: every spelling some enum knows, and some none does
WireTexts ==
    {t[3] : t \in SerdeNames}
        \cup {"image/png", "application/json; charset=utf-8", "TEXT/PLAIN", "http/1.2", ""}

NoText == [some |-> FALSE, text |-> ""]
NoValue == [ok |-> FALSE, v |-> [type |-> "", variant |-> ""]]

InitSerde ==
    /\ origin \in {[from |-> "value", type |-> v.type, value |-> v.variant, text |-> ""] :
                       v \in EnumValues}
            \cup {[from |-> "text", type |-> ty, value |-> "", text |-> tx] :
                       ty \in EnumTypes, tx \in WireTexts}
    /\ wire = NoText
    /\ decoded = NoValue
    /\ phase = "start"

\* encode: of the origin value, or of the value a text was decoded to
Serialize ==
    /\ \/ /\ origin.from = "value" /\ phase = "start"
          /\ wire' = [some |-> TRUE,
                      text |-> serialize([type |-> origin.type, variant |-> origin.value])]
          /\ phase' = "half"
       \/ /\ origin.from = "text" /\ phase = "half" /\ decoded.ok
          /\ wire' = [some |-> TRUE, text |-> serialize(decoded.v)]
          /\ phase' = "done"
    /\ UNCHANGED <<origin, decoded, headerVars, responseVars>>

\* decode: of the origin text, or of the text a value was encoded to
Deserialize ==
    /\ \/ /\ origin.from = "text" /\ phase = "start"
          /\ decoded' = deserialize(origin.type, origin.text)
          /\ phase' = "half"
       \/ /\ origin.from = "value" /\ phase = "half"
          /\ decoded' = deserialize(origin.type, wire.text)
          /\ phase' = "done"
    /\ UNCHANGED <<origin, wire, headerVars, responseVars>>

Next_Serde == Serialize \/ Deserialize

(***************************************************************************)
(* ResponseHandler                                                         *)
(***************************************************************************)
WordBits == 8   \* the width the u64 fields are modelled with

U64Mod == 2 ^ WordBits
U64Max == U64Mod - 1

\* a usize or u128 value cast with `as u64`
AsU64(n) == n % U64Mod

CtJsonCharset ==
    <<"a","p","p","l","i","c","a","t","i","o","n","/","j","s","o","n",";"," ","c","h","a","r","s","e","t","=","u","t","f","-","8">>

\* first Content-Type values a server may send: every catalog text, catalog
\* texts with parameters or a longer subtype, and texts no catalog entry starts
ResponseContentTypes ==
    {as_ref(m) : m \in MediaTypes \ {"Other"}}
        \cup { CtJsonCharset,
               <<"t","e","x","t","/","h","t","m","l",";">>,
               <<"a","p","p","l","i","c","a","t","i","o","n","/","j","s","o","n","p">>,
               <<"a","p","p","l","i","c","a","t","i","o","n","/","x","h","t","m","l","+","x","m","l">>,
               <<"T","e","x","t","/","H","t","m","l">>,
               <<"t","e","x","t","/","x">>,
               <<"i","m","a","g","e","/","p","n","g">>,
               <<>> }

ResponseKeys ==
    { KeyContentType,
      <<"c","o","n","t","e","n","t","-","t","y","p","e">>,
      <<"C","O","N","T","E","N","T","-","T","Y","P","E">> }

\* the response header mappings tried: none, or one key in one of its
\* spellings with no value, one value, or a second value after it
ResponseHeaderMaps ==
    {<<>>} \cup
    UNION {[{k} -> {<<>>} \cup {<<v>> : v \in ResponseContentTypes}
                          \cup {<<v, as_ref("TextHtml")>> : v \in ResponseContentTypes}] :
               k \in ResponseKeys}

\* the body is modelled by its length: build() reads nothing else of it
\* SystemTime, in microseconds from the epoch (negative: before it)
Times == {-1, 0, 1999, 250000}
HeaderSizes == {0, 120, U64Max - 36, U64Max}
BodyLens == {0, 1, 37}

\* StatusCode::to_string: the code and its canonical reason
StatusText(status) == IF status = 200 THEN "200 OK" ELSE "404 Not Found"

Parse(message) == [kind |-> "Parse", message |-> message]

\* Duration::as_millis
as_millis(d) == d \div 1000

\* ResponseHandler::determine_media_type
determine_media_type_exact(h) ==
    IF KeyContentType \in DOMAIN h.headers /\ Len(h.headers[KeyContentType]) > 0
    THEN LET content_type == h.headers[KeyContentType][1]
         IN  IF \E m \in MediaTypes \ {"Other"} : content_type = as_ref(m)
             THEN CHOOSE m \in MediaTypes \ {"Other"} : content_type = as_ref(m)
             ELSE "TextPlain"
    ELSE "TextPlain"

determine_media_type(h) ==
    IF KeyContentType \in DOMAIN h.headers /\ Len(h.headers[KeyContentType]) > 0
    THEN LET content_type == h.headers[KeyContentType][1]
         IN  IF starts_with(content_type, as_ref("TextPlain")) THEN "TextPlain"
             ELSE IF starts_with(content_type, as_ref("TextHtml")) THEN "TextHtml"
             ELSE IF starts_with(content_type, as_ref("TextCss")) THEN "TextCss"
             ELSE IF starts_with(content_type, as_ref("TextCsv")) THEN "TextCsv"
             ELSE IF starts_with(content_type, as_ref("Json")) THEN "Json"
             ELSE IF starts_with(content_type, as_ref("JsonLd")) THEN "JsonLd"
             ELSE IF starts_with(content_type, as_ref("Xml")) THEN "Xml"
             ELSE IF starts_with(content_type, as_ref("TextXml")) THEN "TextXml"
             ELSE IF starts_with(content_type, as_ref("FormUrlEncoded")) THEN "FormUrlEncoded"
             ELSE IF starts_with(content_type, as_ref("MultipartFormData"))
                  THEN "MultipartFormData"
             ELSE IF starts_with(content_type, as_ref("OctetStream")) THEN "OctetStream"
             ELSE "TextPlain"
    ELSE "TextPlain"

\* ResponseHandler::calculate_timing.  The trace event's duration_ms field is
\* end_ms - start_ms on u64, evaluated only where the TRACE level is on: with
\* overflow checks the subtraction panics when end_ms < start_ms, without them
\* it wraps and only the log sees it.
calculate_timing(h, p) ==
    IF h.start_time < 0 THEN [kind |-> "Err", error |-> Parse("Failed to get start time")]
    ELSE IF h.end_time < 0 THEN [kind |-> "Err", error |-> Parse("Failed to get end time")]
    ELSE LET start_ms == AsU64(as_millis(h.start_time))
             end_ms == AsU64(as_millis(h.end_time))
         IN  IF p.trace_enabled /\ p.overflow_checks /\ end_ms < start_ms
             THEN [kind |-> "Panic"]
             ELSE [kind |-> "Ok", v |-> [start |-> start_ms, end |-> end_ms]]

\* the SizeInfo of build(): header_size + body.len() on u64 panics on overflow
\* with overflow checks and wraps without
size_info(h, p) ==
    LET body == AsU64(h.body_len)
        sum == h.header_size + body
    IN  IF sum > U64Max /\ p.overflow_checks THEN [kind |-> "Panic"]
        ELSE [kind |-> "Ok",
              v |-> [headers |-> h.header_size, body |-> body, total |-> sum % U64Mod]]

\* ResponseHandler::build
build(h, p) ==
    LET media_type == determine_media_type(h)
        timing == calculate_timing(h, p)
        size == size_info(h, p)
    IN  IF timing.kind # "Ok" THEN timing
        ELSE IF size.kind # "Ok" THEN size
        ELSE [kind |-> "Ok",
              v |-> [id |-> h.id,
                     status |-> h.status,
                     status_text |-> StatusText(h.status),
                     version |-> h.version,
                     headers |-> h.headers,
                     cookies |-> None,
                     meta |-> [timing |-> timing.v, size |-> size.v],
                     body |-> [len |-> h.body_len, media_type |-> media_type]]]

NotBuilt == [kind |-> "NotBuilt"]

\* ResponseHandler::new, for every input tried
InitResponse ==
    /\ profile \in [overflow_checks : BOOLEAN, trace_enabled : BOOLEAN]
    /\ handler \in [id : {1}, headers : ResponseHeaderMaps, body_len : BodyLens,
                    status : {200, 404}, header_size : HeaderSizes,
                    start_time : Times, end_time : Times, version : {"HTTP/1.1"}]
    /\ consumed = FALSE
    /\ outcome = NotBuilt
    /\ built = 0

\* build(self) takes the instance by value: it can be called while the caller
\* still owns the instance, and the call moves the instance away
CanBuild_borrowed == TRUE

CanBuild == ~consumed

Build ==
    /\ CanBuild
    /\ outcome' = build(handler, profile)
    /\ consumed' = TRUE
    /\ built' = built + 1
    /\ UNCHANGED <<profile, handler, headerVars, serdeVars>>

Next_Response == Build

(***************************************************************************)
(* Specifications: one per component, the other components at rest         *)
(***************************************************************************)
RestHeaders == handle = [header_list |-> <<>>, setopt_fails |-> FALSE] /\ call = NoCall

RestResponse ==
    /\ profile = [overflow_checks |-> FALSE, trace_enabled |-> FALSE]
    /\ handler = [id |-> 1, headers |-> <<>>, body_len |-> 0, status |-> 200,
                  header_size |-> 0, start_time |-> 0, end_time |-> 0,
                  version |-> "HTTP/1.1"]
    /\ consumed = TRUE
    /\ outcome = NotBuilt
    /\ built = 0

RestSerde ==
    /\ origin = [from |-> "none", type |-> "", value |-> "", text |-> ""]
    /\ wire = NoText
    /\ decoded = NoValue
    /\ phase = "rest"

Init_Headers == InitHeaders /\ RestResponse /\ RestSerde
SpecHeaders == Init_Headers /\ [][Next_Headers]_vars

Init_Response == InitResponse /\ RestHeaders /\ RestSerde
SpecResponse == Init_Response /\ [][Next_Response]_vars

Init_Serde == InitSerde /\ RestHeaders /\ RestResponse
SpecSerde == Init_Serde /\ [][Next_Serde]_vars

(***************************************************************************)
(* Properties of the HeadersBuilder (SpecHeaders)                          *)
(***************************************************************************)
\* line is exactly "<key>: <value>"
IsHeaderLine(line, key, value) ==
    /\ Len(line) = Len(key) + 2 + Len(value)
    /\ SubSeq(line, 1, Len(key)) = key
    /\ line[Len(key) + 1] = ":"
    /\ line[Len(key) + 2] = " "
    /\ SubSeq(line, Len(key) + 3, Len(line)) = value

\* the number of values a mapping holds, over all its keys
ValueCount(m, order) == SeqSum([i \in 1..Len(order) |-> Len(m[order[i]])])

\* the call was handed something to install: a present mapping or a content type
GivenList(c) == c.op = "add_content_type" \/ (c.op = "add_headers" /\ c.headers.some)

\* the list such a call builds from its arguments
ListOf(c) ==
    IF c.op = "add_content_type" THEN <<FormatContentType(c.content_type)>>
    ELSE LET ps == Pairs(c.headers.v, c.order)
         IN  [i \in 1..Len(ps) |-> FormatHeader(ps[i].key, ps[i].value)]

\* C1: a successful call that was given a present mapping or a content type
\* leaves the engine with exactly the list that call built, whatever was
\* installed before (replaced, not merged); every other call (an absent
\* mapping, a failed call) leaves the installed list as it was.
C1_InstallReplaces ==
    [][IF GivenList(call') /\ call'.result.ok
       THEN handle'.header_list = ListOf(call')
       ELSE handle'.header_list = handle.header_list]_vars

\* an absent mapping came after an installation and the list is still there
C1_Witness ==
    /\ call.op = "add_headers"
    /\ ~call.headers.some
    /\ call.result.ok
    /\ Len(handle.header_list) = 2

\* C6: a successful add_headers call with a present mapping has appended one
\* line per (key, value) pair, sum of the value counts in all, each exactly
\* "<key>: <value>", and installed them with one http_headers call; a key
\* with no values has no line.
C6_OneLinePerValue ==
    (call.op = "add_headers" /\ call.headers.some /\ call.result.ok) =>
        LET m == call.headers.v
            list == handle.header_list
        IN  /\ Len(list) = ValueCount(m, call.order)
            /\ call.appends = ValueCount(m, call.order)
            /\ call.installs = 1
            /\ \A j \in 1..Len(list) :
                   \E k \in DOMAIN m : \E i \in 1..Len(m[k]) : IsHeaderLine(list[j], k, m[k][i])
            /\ \A k \in DOMAIN m : \A v \in HeaderValues :
                   Cardinality({j \in 1..Len(list) : IsHeaderLine(list[j], k, v)})
                       = Cardinality({i \in 1..Len(m[k]) : m[k][i] = v})
            /\ \A k \in DOMAIN m :
                   m[k] = <<>> => ~\E j \in 1..Len(list) : starts_with(list[j], k)

\* two keys, one with two values and one with none: two lines
C6_Witness ==
    /\ call.op = "add_headers" /\ call.headers.some /\ call.result.ok
    /\ DOMAIN call.headers.v = HeaderKeys
    /\ call.headers.v[KeyXA] = <<ValJson, ValJson>>
    /\ call.headers.v[KeyContentType] = <<>>
    /\ Len(handle.header_list) = 2
    /\ call.installs = 1

\* C7: from every installed header state, add_content_type(X) and
\* add_headers({"Content-Type": [X]}) leave the same installed list and both
\* succeed or both fail.
C7_ContentTypeAsHeaders ==
    \A x \in ContentTypes :
        LET a == add_content_type(handle, x)
            b == add_headers(handle, Some([k \in {KeyContentType} |-> <<x>>]), <<KeyContentType>>)
        IN  /\ a.handle.header_list = b.handle.header_list
            /\ a.call.result.ok = b.call.result.ok

\* add_content_type has replaced a list of two lines by its one line
C7_Witness ==
    /\ call.op = "add_content_type"
    /\ call.result.ok
    /\ handle.header_list = <<FormatContentType(ValJson)>>
    /\ handle.header_list =
           add_headers(handle, Some([k \in {KeyContentType} |-> <<ValJson>>]),
                       <<KeyContentType>>).handle.header_list

\* the first pair, in the order visited, whose line holds the byte 0
Rejected(ps) == {n \in 1..Len(ps) : HasNul(ps[n].key) \/ HasNul(ps[n].value)}
FirstRejected(ps) == CHOOSE n \in Rejected(ps) : \A o \in Rejected(ps) : n <= o

ErrorText(e) == e.message \o <<" ">> \o e.cause

\* C10 as stated: a rejected line makes add_headers fail with a Network error
\* whose content includes the offending key and value and the cause, at the
\* first rejected line and without retry.
C10_ErrorNamesKeyValue ==
    (call.op = "add_headers" /\ call.headers.some
        /\ Rejected(Pairs(call.headers.v, call.order)) # {}) =>
        LET ps == Pairs(call.headers.v, call.order)
            n == FirstRejected(ps)
        IN  /\ ~call.result.ok
            /\ call.result.error.kind = "Network"
            /\ Contains(ErrorText(call.result.error), ps[n].key)
            /\ Contains(ErrorText(call.result.error), ps[n].value)
            /\ Contains(ErrorText(call.result.error), CauseAppend)
            /\ call.appends = n
            /\ call.installs = 0

\* C10 as the code has it: a rejected line makes add_headers fail with the
\* Network error "Failed to append header" and the engine's cause; the key
\* and the value go to the log event only, the error holds neither; the call
\* ends at the first rejected line, with no further append, no retry and no
\* installation.
C10_ErrorHasMessageAndCause ==
    (call.op = "add_headers" /\ call.headers.some
        /\ Rejected(Pairs(call.headers.v, call.order)) # {}) =>
        LET ps == Pairs(call.headers.v, call.order)
            n == FirstRejected(ps)
        IN  /\ ~call.result.ok
            /\ call.result.error = Network(MsgAppendHeader, CauseAppend)
            /\ ~Contains(ErrorText(call.result.error), ps[n].key)
            /\ ~Contains(ErrorText(call.result.error), ps[n].value)
            /\ call.logged = Some([key |-> ps[n].key, value |-> ps[n].value])
            /\ call.appends = n
            /\ call.installs = 0
            /\ Len(call.list) = n - 1

\* the second line was rejected after the first was accepted, and a list
\* installed earlier is still in place
C10_Witness ==
    /\ call.op = "add_headers" /\ call.headers.some
    /\ ~call.result.ok
    /\ call.appends = 2
    /\ call.installs = 0
    /\ call.logged = Some([key |-> KeyXA, value |-> ValBad])
    /\ handle.header_list = <<FormatContentType(ValJson)>>

(***************************************************************************)
(* Properties of the ResponseHandler (SpecResponse)                        *)
(***************************************************************************)
CatalogOrder ==
    <<"TextPlain", "TextHtml", "TextCss", "TextCsv", "Json", "JsonLd", "Xml", "TextXml",
      "FormUrlEncoded", "MultipartFormData", "OctetStream">>

\* the catalog entries whose text the value starts with, by their place
Matching(value) ==
    {i \in 1..Len(CatalogOrder) : starts_with(value, as_ref(CatalogOrder[i]))}

\* the first catalog entry, in the catalog's order, that the first value
\* under "Content-Type" starts with; TextPlain without one
FirstMatch(headers) ==
    IF /\ KeyContentType \in DOMAIN headers
       /\ headers[KeyContentType] # <<>>
       /\ Matching(headers[KeyContentType][1]) # {}
    THEN CatalogOrder[CHOOSE i \in Matching(headers[KeyContentType][1]) :
                          \A j \in Matching(headers[KeyContentType][1]) : i <= j]
    ELSE "TextPlain"

FirstValueIs(value) ==
    /\ KeyContentType \in DOMAIN handler.headers
    /\ handler.headers[KeyContentType] # <<>>
    /\ handler.headers[KeyContentType][1] = value

\* C3: the media type of a built Response is the first catalog entry, in the
\* fixed order, whose text is a prefix of the first Content-Type value, and
\* TextPlain when none is, when the header is absent or when it has no value;
\* "application/json; charset=utf-8" is Json, "application/ld+json" is JsonLd.
C3_FirstPrefixMatch ==
    outcome.kind = "Ok" =>
        /\ outcome.v.body.media_type = FirstMatch(handler.headers)
        /\ FirstValueIs(CtJsonCharset) => outcome.v.body.media_type = "Json"
        /\ FirstValueIs(as_ref("JsonLd")) => outcome.v.body.media_type = "JsonLd"
        /\ (KeyContentType \notin DOMAIN handler.headers \/ FirstValueIs(<<>>)
               \/ FirstValueIs(<<"i","m","a","g","e","/","p","n","g">>))
              => outcome.v.body.media_type = "TextPlain"

C3_Witness ==
    /\ outcome.kind = "Ok"
    /\ FirstValueIs(CtJsonCharset)
    /\ Len(handler.headers[KeyContentType]) = 2
    /\ outcome.v.body.media_type = "Json"

\* C4: every Response built has size.headers = the header size given,
\* size.body = the body length and size.total = their sum, unwrapped.
C4_TotalIsSum ==
    outcome.kind = "Ok" =>
        /\ outcome.v.meta.size.headers = handler.header_size
        /\ outcome.v.meta.size.body = handler.body_len
        /\ outcome.v.meta.size.total = handler.header_size + handler.body_len

\* C5: an instance is built at most once: before build() it has no outcome,
\* build() moves it away, and on a moved instance build() cannot be taken, so
\* no instance yields two outcomes.
C5_SingleUse ==
    /\ built <= 1
    /\ consumed <=> built = 1
    /\ ~consumed <=> outcome = NotBuilt
    /\ consumed => ~ENABLED Build

C5_Witness ==
    /\ consumed
    /\ built = 1
    /\ outcome.kind = "Ok"
    /\ ~ENABLED Build

UpperCase == <<"A","B","C","D","E","F","G","H","I","J","K","L","M","N","O","P","Q","R","S","T","U","V","W","X","Y","Z">>
LowerCase == <<"a","b","c","d","e","f","g","h","i","j","k","l","m","n","o","p","q","r","s","t","u","v","w","x","y","z">>

ToLower(c) ==
    IF \E i \in 1..26 : UpperCase[i] = c
    THEN LowerCase[CHOOSE i \in 1..26 : UpperCase[i] = c]
    ELSE c

SameIgnoringCase(a, b) ==
    /\ Len(a) = Len(b)
    /\ \A i \in 1..Len(a) : ToLower(a[i]) = ToLower(b[i])

\* C8: the Content-Type key is matched whatever its case: a Response built
\* from headers whose content-type key is spelled in another case has the
\* media type the same values give under "Content-Type".
C8_KeyCaseInsensitive ==
    outcome.kind = "Ok" =>
        \A k \in DOMAIN handler.headers :
            SameIgnoringCase(k, KeyContentType) =>
                outcome.v.body.media_type =
                    FirstMatch([x \in {KeyContentType} |-> handler.headers[k]])

SizeFits == handler.header_size + handler.body_len <= U64Max

\* C9: build() fails, with a Parse error, exactly when the start or the end
\* time is before the epoch; with both at or after it, build() succeeds with
\* start and end in milliseconds since the epoch, also when end is before
\* start.  (Stated for the sizes whose sum fits.)
C9_FailsOnlyBeforeEpoch ==
    (consumed /\ SizeFits) =>
        IF handler.start_time < 0 \/ handler.end_time < 0
        THEN outcome.kind = "Err" /\ outcome.error.kind = "Parse"
        ELSE /\ outcome.kind = "Ok"
             /\ outcome.v.meta.timing.start = handler.start_time \div 1000
             /\ outcome.v.meta.timing.end = handler.end_time \div 1000

(***************************************************************************)
(* Properties of the serde spellings (SpecSerde)                           *)
(***************************************************************************)
Recognized(type, text) == \E t \in SerdeNames : t[1] = type /\ t[3] = text

\* every value written and read back is the value written
ValueRoundTrip ==
    (origin.from = "value" /\ phase = "done") =>
        /\ decoded.ok
        /\ decoded.v = [type |-> origin.type, variant |-> origin.value]

====
